---- MODULE Spec2Model ----
(***************************************************************************)
(* Model of the context compression engine of ccc (src/ccc/extractor.py):  *)
(* the heuristic token estimator, the tool-JSON cleaner and the front/back *)
(* budgeted truncation of extract_key_messages.                            *)
(*                                                                         *)
(* Texts are sequences of characters.  A character is a TLA+ string: an    *)
(* ASCII character stands for itself and a CJK character is written by its *)
(* code point ("u4e2d").  For the cleaner a text is a sequence of lexemes  *)
(* (a tool marker, a brace, a quoted key), whose concatenation is the text.*)
(***************************************************************************)
EXTENDS Integers, Sequences, FiniteSets, TLC

VARIABLES
    \* ---- count_tokens on the prefixes of one text
    tk_s,              \* the text s
    tk_i,              \* the prefixes s[:0] .. s[:tk_i] have been counted
    tk_counts,         \* tk_counts[k+1] = count_tokens(s[:k])
    \* ---- clean_tool_json applied twice
    cl_text,           \* the text given to the cleaner
    cl_once,           \* clean_tool_json(cl_text)
    cl_twice,          \* clean_tool_json(cl_once)
    cl_pc,
    \* ---- extract_key_messages
    messages,          \* the caller's records, by position; the nested message dicts are shared with the copies
    original,          \* the records as they were when the call was made
    front_tokens,      \* argument
    back_tokens,       \* argument
    message_tokens,    \* per position: [content, tokens]
    front_messages,    \* object references kept by the front pass: [idx, copy]
    temp_back,         \* object references kept by the back pass, last record first
    front_token_count,
    back_token_count,
    fi,                \* position the front loop is at
    bi,                \* position the back loop is at
    extracted,         \* returned list (object references)
    stats,             \* returned stats dict
    pc,
    \* ---- _binary_search_truncate with any token counter
    bs_len,            \* len(content)
    bs_counter,        \* the token counter, as a function of the prefix length
    bs_target,         \* target_tokens
    bs_left,
    bs_right,
    bs_best_pos,
    bs_best_tokens,
    bs_iter,           \* iterations of the for loop begun so far
    bs_result,         \* length of the returned prefix
    bs_pc,
    \* ---- _get_message_content called twice on one record
    gc_msg,            \* the record
    gc_msg0,           \* the record as it was before the first call
    gc_texts,          \* the local list texts of the call in progress or last made
    gc_out,            \* outcome of the first call: the text, or an exception
    gc_out2,           \* outcome of the second call
    gc_pc,
    \* ---- display_page computing one page with a worker pool
    pg_n,              \* len(base_items)
    pg_outcome,        \* per item: how computing its session info ends
    pg_mode,           \* thread pool or process pool
    pg_futures,        \* per item: state of its worker
    pg_order,          \* the items in the order their results were taken
    pg_results,        \* results dict of the process pool branch
    pg_page,           \* page_sessions
    pg_k,              \* position of ex.map, then of the serial fallback loop
    pg_pc,
    \* ---- InteractiveSessionSelector.run
    ui_len,            \* len(self.sessions)
    ui_page_size,
    ui_current_page,
    ui_total_pages,
    ui_show_help,
    ui_key,            \* the last key read, with what was typed at its prompt
    ui_result,         \* index of the returned session, -1 for None
    ui_pc,
    \* ---- the session-detail menu of main()
    mn_tokens,         \* selected_info["tokens"]
    mn_message_count,  \* selected_info["message_count"]
    mn_output,         \* whether --output was given
    mn_parsed,         \* whether parse_session will find records in the file
    mn_choice,         \* the last choice read, stripped and lowered
    mn_pc,
    \* ---- count_tokens called several times on one extractor
    ct_encoder,        \* self.encoder: None, or what encode does on each text
    ct_encoder0,       \* self.encoder as __init__ left it
    ct_calls           \* the calls made so far: [text, result]

vars == <<tk_s, tk_i, tk_counts, cl_text, cl_once, cl_twice, cl_pc,
          messages, original, front_tokens, back_tokens, message_tokens,
          front_messages, temp_back, front_token_count, back_token_count,
          fi, bi, extracted, stats, pc,
          bs_len, bs_counter, bs_target, bs_left, bs_right, bs_best_pos,
          bs_best_tokens, bs_iter, bs_result, bs_pc,
          gc_msg, gc_msg0, gc_texts, gc_out, gc_out2, gc_pc,
          pg_n, pg_outcome, pg_mode, pg_futures, pg_order, pg_results, pg_page,
          pg_k, pg_pc,
          ui_len, ui_page_size, ui_current_page, ui_total_pages, ui_show_help,
          ui_key, ui_result, ui_pc,
          mn_tokens, mn_message_count, mn_output, mn_parsed, mn_choice, mn_pc,
          ct_encoder, ct_encoder0, ct_calls>>

tkVars == <<tk_s, tk_i, tk_counts>>
clVars == <<cl_text, cl_once, cl_twice, cl_pc>>
exVars == <<messages, original, front_tokens, back_tokens, message_tokens,
            front_messages, temp_back, front_token_count, back_token_count,
            fi, bi, extracted, stats, pc>>
bsVars == <<bs_len, bs_counter, bs_target, bs_left, bs_right, bs_best_pos,
            bs_best_tokens, bs_iter, bs_result, bs_pc>>

\* the variables of the specifications other than the counter, the cleaner
\* and the extraction
gcVars == <<gc_msg, gc_msg0, gc_texts, gc_out, gc_out2, gc_pc>>
pgVars == <<pg_n, pg_outcome, pg_mode, pg_futures, pg_order, pg_results, pg_page,
            pg_k, pg_pc>>
uiVars == <<ui_len, ui_page_size, ui_current_page, ui_total_pages, ui_show_help,
            ui_key, ui_result, ui_pc>>
mnVars == <<mn_tokens, mn_message_count, mn_output, mn_parsed, mn_choice, mn_pc>>
ctVars == <<ct_encoder, ct_encoder0, ct_calls>>
moreVars == <<bsVars, gcVars, pgVars, uiVars, mnVars, ctVars>>
bsRest == <<tkVars, clVars, exVars, gcVars, pgVars, uiVars, mnVars, ctVars>>
gcRest == <<tkVars, clVars, exVars, bsVars, pgVars, uiVars, mnVars, ctVars>>
pgRest == <<tkVars, clVars, exVars, bsVars, gcVars, uiVars, mnVars, ctVars>>
uiRest == <<tkVars, clVars, exVars, bsVars, gcVars, pgVars, mnVars, ctVars>>
mnRest == <<tkVars, clVars, exVars, bsVars, gcVars, pgVars, uiVars, ctVars>>
ctRest == <<tkVars, clVars, exVars, bsVars, gcVars, pgVars, uiVars, mnVars>>

-----------------------------------------------------------------------------
(* Bounds of the model *)

MaxHead == 3        \* free characters at the head of a counted text
MaxFill == 50       \* repeated characters after the head
MaxChunks == 3      \* chunks of a text given to the cleaner
MaxRecs == 3        \* records of a transcript
BigLen == 204       \* characters of a long text block

-----------------------------------------------------------------------------
(* Text helpers *)

Max(a, b) == IF a >= b THEN a ELSE b
Min(a, b) == IF a <= b THEN a ELSE b

Rep(c, n) == [k \in 1..n |-> c]
Prefix(s, n) == SubSeq(s, 1, n)
Reverse(s) == [k \in 1..Len(s) |-> s[Len(s) + 1 - k]]
SeqsUpTo(S, n) == UNION {[1..k -> S] : k \in 0..n}

RECURSIVE Sum(_, _)
Sum(f, n) == IF n = 0 THEN 0 ELSE f[n] + Sum(f, n - 1)

RECURSIVE Flatten(_)
Flatten(ss) == IF ss = <<>> THEN <<>> ELSE Head(ss) \o Flatten(Tail(ss))

RECURSIVE Join(_, _)
Join(texts, sep) ==
    IF texts = <<>> THEN <<>>
    ELSE IF Len(texts) = 1 THEN texts[1]
    ELSE texts[1] \o sep \o Join(Tail(texts), sep)

NL == "\n"
Zh == "u4e2d"
BQ == "u0060"   \* the backtick
CJK == {"u4e2d", "u5185", "u5bb9", "u5df2", "u622a", "u65ad",
        "u524d", "u9762", "u7701", "u7565"}

-----------------------------------------------------------------------------
(* count_tokens, heuristic estimator (no encoder installed).  The floats   *)
(* 1.8, 1/3.5, 1.2 and 1.1 are kept exact as fractions over 1750.          *)

CountIn(text, S) == Cardinality({k \in 1..Len(text) : text[k] \in S})

HasFence(text) ==
    \E k \in 1..(Len(text) - 2) :
        text[k] = BQ /\ text[k + 1] = BQ /\ text[k + 2] = BQ

NewlineDense(text) == 50 * CountIn(text, {NL}) > Len(text)

Estimated1750(text) ==
    LET total_chars == Len(text)
        chinese_chars == CountIn(text, CJK)
        non_chinese_chars == total_chars - chinese_chars
        base == 10 * non_chinese_chars + 63 * chinese_chars
        fence == IF HasFence(text) THEN 6 ELSE 5
        dense == IF NewlineDense(text) THEN 11 ELSE 10
    IN  base * fence * dense

count_tokens(text) ==
    LET total_chars == Len(text)
        estimated == Estimated1750(text)
        clamped == Max(175 * total_chars, Min(estimated, 875 * total_chars))
    IN  clamped \div 1750

-----------------------------------------------------------------------------
(* Specification SpecTokens: count_tokens on every prefix of a text *)

TokAlphabet == {"a", NL, BQ, Zh}

TokInputs ==
    {h \o Rep(f, MaxFill) : h \in SeqsUpTo(TokAlphabet, MaxHead), f \in TokAlphabet}

ExIdle ==
    /\ messages = <<>>
    /\ original = <<>>
    /\ front_tokens = 0
    /\ back_tokens = 0
    /\ message_tokens = <<>>
    /\ front_messages = <<>>
    /\ temp_back = <<>>
    /\ front_token_count = 0
    /\ back_token_count = 0
    /\ fi = 0
    /\ bi = 0
    /\ extracted = <<>>
    /\ stats = [k \in {} |-> 0]
    /\ pc = "idle"

ClIdle ==
    /\ cl_text = <<>>
    /\ cl_once = <<>>
    /\ cl_twice = <<>>
    /\ cl_pc = "idle"

TkIdle ==
    /\ tk_s = <<>>
    /\ tk_i = 0
    /\ tk_counts = <<>>

BsIdle ==
    /\ bs_len = 0
    /\ bs_counter = [kind |-> "idle", d |-> 0, tab |-> <<>>]
    /\ bs_target = 0
    /\ bs_left = 0
    /\ bs_right = 0
    /\ bs_best_pos = 0
    /\ bs_best_tokens = 0
    /\ bs_iter = 0
    /\ bs_result = 0
    /\ bs_pc = "idle"

GcIdle ==
    /\ gc_msg = <<>>
    /\ gc_msg0 = <<>>
    /\ gc_texts = <<>>
    /\ gc_out = [raised |-> FALSE, text |-> <<>>]
    /\ gc_out2 = [raised |-> FALSE, text |-> <<>>]
    /\ gc_pc = "idle"

PgIdle ==
    /\ pg_n = 0
    /\ pg_outcome = <<>>
    /\ pg_mode = "idle"
    /\ pg_futures = <<>>
    /\ pg_order = <<>>
    /\ pg_results = <<>>
    /\ pg_page = <<>>
    /\ pg_k = 0
    /\ pg_pc = "idle"

UiIdle ==
    /\ ui_len = 0
    /\ ui_page_size = 0
    /\ ui_current_page = 0
    /\ ui_total_pages = 0
    /\ ui_show_help = FALSE
    /\ ui_key = [ch |-> "", arg |-> 0]
    /\ ui_result = -1
    /\ ui_pc = "idle"

MnIdle ==
    /\ mn_tokens = 0
    /\ mn_message_count = 0
    /\ mn_output = FALSE
    /\ mn_parsed = FALSE
    /\ mn_choice = ""
    /\ mn_pc = "idle"

CtIdle ==
    /\ ct_encoder = [installed |-> FALSE, encode |-> <<>>]
    /\ ct_encoder0 = [installed |-> FALSE, encode |-> <<>>]
    /\ ct_calls = <<>>

MoreIdle == BsIdle /\ GcIdle /\ PgIdle /\ UiIdle /\ MnIdle /\ CtIdle
BsRestIdle == TkIdle /\ ClIdle /\ ExIdle /\ GcIdle /\ PgIdle /\ UiIdle /\ MnIdle /\ CtIdle
GcRestIdle == TkIdle /\ ClIdle /\ ExIdle /\ BsIdle /\ PgIdle /\ UiIdle /\ MnIdle /\ CtIdle
PgRestIdle == TkIdle /\ ClIdle /\ ExIdle /\ BsIdle /\ GcIdle /\ UiIdle /\ MnIdle /\ CtIdle
UiRestIdle == TkIdle /\ ClIdle /\ ExIdle /\ BsIdle /\ GcIdle /\ PgIdle /\ MnIdle /\ CtIdle
MnRestIdle == TkIdle /\ ClIdle /\ ExIdle /\ BsIdle /\ GcIdle /\ PgIdle /\ UiIdle /\ CtIdle
CtRestIdle == TkIdle /\ ClIdle /\ ExIdle /\ BsIdle /\ GcIdle /\ PgIdle /\ UiIdle /\ MnIdle

InitTokens ==
    /\ tk_s \in TokInputs
    /\ tk_i = 0
    /\ tk_counts = <<count_tokens(<<>>)>>
    /\ ClIdle
    /\ ExIdle
    /\ MoreIdle

CountPrefix ==
    /\ tk_i < Len(tk_s)
    /\ tk_i' = tk_i + 1
    /\ tk_counts' = Append(tk_counts, count_tokens(Prefix(tk_s, tk_i + 1)))
    /\ UNCHANGED <<tk_s, clVars, exVars, moreVars>>

NextTokens == CountPrefix

SpecTokens == InitTokens /\ [][NextTokens]_vars

\* C6: the heuristic estimator is monotone in prefix length:
\* count_tokens(s[:i]) <= count_tokens(s[:j]) for all 0 <= i <= j <= len(s).
C6_PrefixMonotone ==
    \A i \in 1..Len(tk_counts) : \A j \in i..Len(tk_counts) :
        tk_counts[i] <= tk_counts[j]

-----------------------------------------------------------------------------
(* clean_tool_json: the ordered pattern table of _clean_tool_call_pollution *)
(* on a text given as a sequence of lexemes.                               *)

Marker == [Write |-> "[Tool: Write]", Edit |-> "[Tool: Edit]",
           Bash |-> "[Tool: Bash]", Grep |-> "[Tool: Grep]",
           Foo |-> "[Tool: Foo]"]
UsedTool == [Write |-> "[Used tool: Write]", Edit |-> "[Used tool: Edit]",
             Bash |-> "[Used tool: Bash]", Grep |-> "[Used tool: Grep]",
             Foo |-> "[Used tool: Foo]"]
ToolNames == DOMAIN Marker
Markers == {Marker[n] : n \in ToolNames}
NameOf(lexeme) == CHOOSE n \in ToolNames : Marker[n] = lexeme

KFP == "\"file_path\""
KCO == "\"content\""
KOS == "\"old_string\""
KCM == "\"command\""
KPA == "\"pattern\""
KIN == "\"input\""
QV == "\"v\""
Quoted == {KFP, KCO, KOS, KCM, KPA, KIN, QV}   \* lexemes of the form "[^"]+"
Space == " "

\* the (pattern, replacement) table, in the order of the source
patterns == <<
    [tool |-> "Write", keys |-> <<KFP, KCO>>, pair |-> FALSE, repl |-> "[Created file]"],
    [tool |-> "Edit", keys |-> <<KFP, KOS>>, pair |-> FALSE, repl |-> "[Edited file]"],
    [tool |-> "Bash", keys |-> <<KCM>>, pair |-> FALSE, repl |-> "[Executed command]"],
    [tool |-> "Grep", keys |-> <<KPA>>, pair |-> FALSE, repl |-> "[Searched]"],
    [tool |-> "*", keys |-> <<KIN>>, pair |-> FALSE, repl |-> "*"],
    [tool |-> "*", keys |-> <<>>, pair |-> TRUE, repl |-> "*"] >>

\* \s* : the first position at or after i that holds no whitespace
RECURSIVE SkipSpaces(_, _)
SkipSpaces(text, i) ==
    IF i <= Len(text) /\ text[i] = Space THEN SkipSpaces(text, i + 1) ELSE i

\* [^}]*\} : the position of the first closing brace after j, 0 when there is none
FirstClose(text, j) ==
    LET closes == {e \in (j + 1)..Len(text) : text[e] = "}"}
    IN  IF closes = {} THEN 0 ELSE CHOOSE e \in closes : \A f \in closes : e <= f

KeysNotRequired(text, keys, j, e) == TRUE

\* the keys occur in this order strictly between positions j and e
KeysInOrder(text, keys, j, e) ==
    IF Len(keys) = 1
    THEN \E a \in (j + 1)..(e - 1) : text[a] = keys[1]
    ELSE \E a \in (j + 1)..(e - 1) : \E b \in (a + 1)..(e - 1) :
            text[a] = keys[1] /\ text[b] = keys[2]

\* \{"[^"]+"\s*:\s*"[^"]+"\} with the opening brace at j: position of the closing brace, or 0
PairEnd(text, j) ==
    LET c == SkipSpaces(text, j + 2)
        v == SkipSpaces(text, c + 1)
    IN  IF /\ v + 1 <= Len(text)
           /\ text[j + 1] \in Quoted
           /\ text[c] = ":"
           /\ text[v] \in Quoted
           /\ text[v + 1] = "}"
        THEN v + 1 ELSE 0

\* position of the last lexeme of the match of pattern p that starts at i, or 0
MatchEnd(p, text, i) ==
    LET j == SkipSpaces(text, i + 1)
    IN  IF ~ (text[i] \in Markers /\ (p.tool = "*" \/ text[i] = Marker[p.tool]))
        THEN 0
        ELSE IF ~ (j <= Len(text) /\ text[j] = "{") THEN 0
        ELSE IF p.pair THEN PairEnd(text, j)
        ELSE LET e == FirstClose(text, j)
             IN  IF e > 0 /\ KeysInOrder(text, p.keys, j, e) THEN e ELSE 0

Replacement(p, lexeme) == IF p.repl = "*" THEN UsedTool[NameOf(lexeme)] ELSE p.repl

\* re.sub(pattern, replacement, text): leftmost non-overlapping matches
RECURSIVE ReSub(_, _, _)
ReSub(p, text, i) ==
    IF i > Len(text) THEN <<>>
    ELSE LET e == MatchEnd(p, text, i)
         IN  IF e > 0
             THEN <<Replacement(p, text[i])>> \o ReSub(p, text, e + 1)
             ELSE <<text[i]>> \o ReSub(p, text, i + 1)

RECURSIVE ApplyPatterns(_, _, _)
ApplyPatterns(table, text, k) ==
    IF k > Len(table) THEN text
    ELSE ApplyPatterns(table, ReSub(table[k], text, 1), k + 1)

clean_tool_json(text) ==
    IF text = <<>> \/ ~ (\E k \in 1..Len(text) : text[k] \in Markers)
    THEN text
    ELSE ApplyPatterns(patterns, text, 1)

-----------------------------------------------------------------------------
(* Specification SpecClean: the cleaner run on a text and on its own output *)

Body == [fpco |-> <<KFP, ":", Space, QV, ",", Space, KCO, ":", Space, QV>>,
         fpos |-> <<KFP, ":", Space, QV, ",", Space, KOS, ":", Space, QV>>,
         cmd |-> <<KCM, ":", Space, QV>>,
         pat |-> <<KPA, ":", Space, QV>>,
         inp |-> <<KIN, ":", Space, QV>>,
         pair |-> <<QV, ":", Space, QV>>]

\* a JSON object that follows no tool marker
JsonSample == <<"{", QV, ":", Space, QV, "}">>

OpenCall(n) == <<Marker[n], Space, "{">>
CloseCall(b) == Body[b] \o <<"}">>
Call(n, b) == OpenCall(n) \o CloseCall(b)

Chunks ==
    { Call("Write", "fpco"), Call("Edit", "fpos"), Call("Bash", "cmd"),
      Call("Grep", "pat"), Call("Foo", "inp"), Call("Foo", "pair"),
      Call("Bash", "fpco"),
      OpenCall("Write"), OpenCall("Foo"),
      CloseCall("fpco"), CloseCall("inp"),
      <<"x">>, JsonSample }

CleanInputs == {Flatten(cs) : cs \in SeqsUpTo(Chunks, MaxChunks)}

InitClean ==
    /\ cl_text \in CleanInputs
    /\ cl_once = <<>>
    /\ cl_twice = <<>>
    /\ cl_pc = "start"
    /\ TkIdle
    /\ ExIdle
    /\ MoreIdle

CleanOnce ==
    /\ cl_pc = "start"
    /\ cl_once' = clean_tool_json(cl_text)
    /\ cl_pc' = "cleaned"
    /\ UNCHANGED <<cl_text, cl_twice, tkVars, exVars, moreVars>>

CleanAgain ==
    /\ cl_pc = "cleaned"
    /\ cl_twice' = clean_tool_json(cl_once)
    /\ cl_pc' = "recleaned"
    /\ UNCHANGED <<cl_text, cl_once, tkVars, exVars, moreVars>>

NextClean == CleanOnce \/ CleanAgain

SpecClean == InitClean /\ [][NextClean]_vars

\* C5: the cleaner is idempotent: cleaning its own output changes nothing,
\* clean(clean(x)) = clean(x) for every text x.
C5_CleanIdempotent == cl_pc = "recleaned" => cl_twice = cl_once

\* position of the opening brace that follows the marker at i, 0 when none does
BraceAfter(text, i) ==
    LET j == SkipSpaces(text, i + 1)
    IN  IF text[i] \in Markers /\ j <= Len(text) /\ text[j] = "{" THEN j ELSE 0

\* the brace object opened at j carries the key names of tool n: those of
\* the tool's own call, or the key "input" of any call
CarriesToolKeys(text, n, j) ==
    LET e == FirstClose(text, j)
        has(k) == \E a \in (j + 1)..(e - 1) : text[a] = k
    IN  /\ e > 0
        /\ \/ n = "Write" /\ has(KFP) /\ has(KCO)
           \/ n = "Edit" /\ has(KFP) /\ has(KOS)
           \/ n = "Bash" /\ has(KCM)
           \/ n = "Grep" /\ has(KPA)
           \/ has(KIN)

\* the brace object opened at j is exactly one quoted key with a quoted value
SinglePair(text, j) ==
    \E c \in (j + 2)..Len(text) : \E v \in (c + 1)..(Len(text) - 1) :
        /\ text[j + 1] \in Quoted
        /\ \A a \in (j + 2)..(c - 1) : text[a] = Space
        /\ text[c] = ":"
        /\ \A a \in (c + 1)..(v - 1) : text[a] = Space
        /\ text[v] \in Quoted
        /\ text[v + 1] = "}"

NoToolShape(text) ==
    \A i \in 1..Len(text) :
        BraceAfter(text, i) > 0 => ~ CarriesToolKeys(text, NameOf(text[i]), BraceAfter(text, i))

NoToolOrPairShape(text) ==
    \A i \in 1..Len(text) :
        BraceAfter(text, i) > 0 =>
            /\ ~ CarriesToolKeys(text, NameOf(text[i]), BraceAfter(text, i))
            /\ ~ SinglePair(text, BraceAfter(text, i))

Placeholders(n) ==
    {UsedTool[n]} \cup
    (CASE n = "Write" -> {"[Created file]"}
       [] n = "Edit" -> {"[Edited file]"}
       [] n = "Bash" -> {"[Executed command]"}
       [] n = "Grep" -> {"[Searched]"}
       [] OTHER -> {})

\* the lexemes a..b lie inside one brace object: none of them is a closing
\* brace, except those that close the brace object of a marker among them
RECURSIVE InsideObject(_, _, _)
InsideObject(text, a, b) ==
    \/ a > b
    \/ text[a] # "}" /\ InsideObject(text, a + 1, b)
    \/ /\ BraceAfter(text, a) > 0
       /\ \E e \in (BraceAfter(text, a) + 1)..b :
             /\ text[e] = "}"
             /\ InsideObject(text, BraceAfter(text, a) + 1, e - 1)
             /\ InsideObject(text, e + 1, b)

\* out is text with some brace objects that follow a marker replaced, marker
\* to closing brace, by a placeholder of the marker's tool; every lexeme
\* outside such an object is in out, in place
RECURSIVE OnlyToolObjectsReplaced(_, _, _, _)
OnlyToolObjectsReplaced(text, i, out, o) ==
    IF i > Len(text) THEN o > Len(out)
    ELSE /\ o <= Len(out)
         /\ \/ text[i] = out[o] /\ OnlyToolObjectsReplaced(text, i + 1, out, o + 1)
            \/ /\ BraceAfter(text, i) > 0
               /\ out[o] \in Placeholders(NameOf(text[i]))
               /\ \E e \in (BraceAfter(text, i) + 1)..Len(text) :
                     /\ text[e] = "}"
                     /\ InsideObject(text, BraceAfter(text, i) + 1, e - 1)
                     /\ OnlyToolObjectsReplaced(text, e + 1, out, o + 1)

Reordered(q) == [k \in 1..Len(patterns) |-> patterns[q[k]]]
TableOrders == Permutations(1..Len(patterns))

\* C22: the pattern table is order-independent: no marker's span is matched
\* by two different entries, and applying the entries in any other order
\* gives the same cleaned text.
C22_OrderIndependent ==
    cl_pc # "start" =>
        /\ \A i \in 1..Len(cl_text) : \A a, b \in 1..Len(patterns) :
              (MatchEnd(patterns[a], cl_text, i) > 0
                 /\ MatchEnd(patterns[b], cl_text, i) > 0) => a = b
        /\ \A q \in TableOrders : ApplyPatterns(Reordered(q), cl_text, 1) = cl_once

-----------------------------------------------------------------------------
(* Records.  A record is [wrapped, kind, text, items]: wrapped says whether *)
(* the content sits in a nested "message" dict; kind is "str" (content is  *)
(* a string, text), "list" (content is a list of blocks, items) or "none". *)
(* A block is [type, body].                                                *)

ThinkingTag == <<"[", "T", "h", "i", "n", "k", "i", "n", "g", "]", " ">>
FrontMarker == <<NL, NL, "[", ".", ".", ".", "u5185", "u5bb9", "u5df2", "u622a",
                 "u65ad", ".", ".", ".", "]", NL>>
BackMarker == <<"[", ".", ".", ".", "u524d", "u9762", "u5185", "u5bb9", "u5df2",
                "u7701", "u7565", ".", ".", ".", "]", NL, NL>>

\* the texts one content block contributes
BlockTexts(item) ==
    IF item.body = <<>> THEN <<>>
    ELSE IF item.type = "text" THEN <<item.body>>
    ELSE IF item.type = "thinking" THEN <<ThinkingTag \o item.body>>
    ELSE <<>>

RECURSIVE ItemTexts(_)
ItemTexts(items) ==
    IF items = <<>> THEN <<>> ELSE BlockTexts(Head(items)) \o ItemTexts(Tail(items))

_get_message_content(msg) ==
    IF msg.kind = "list" THEN Join(ItemTexts(msg.items), <<NL>>)
    ELSE IF msg.kind = "str" THEN msg.text
    ELSE <<>>

-----------------------------------------------------------------------------
(* _binary_search_truncate *)

BisectIterations == 20
MinCutHeadroom == 100

RECURSIVE Bisect(_, _, _, _, _, _, _)
Bisect(content, target_tokens, left, right, best_pos, best_tokens, iter) ==
    IF iter >= BisectIterations \/ left >= right - 1 THEN best_pos
    ELSE LET mid == (left + right) \div 2
             tokens == count_tokens(Prefix(content, mid))
         IN  IF tokens <= target_tokens
             THEN IF tokens > best_tokens
                  THEN Bisect(content, target_tokens, mid, right, mid, tokens, iter + 1)
                  ELSE Bisect(content, target_tokens, mid, right, best_pos, best_tokens, iter + 1)
             ELSE Bisect(content, target_tokens, left, mid, best_pos, best_tokens, iter + 1)

_binary_search_truncate(content, target_tokens) ==
    IF content = <<>> THEN <<>>
    ELSE IF count_tokens(content) <= target_tokens THEN content
    ELSE Prefix(content, Bisect(content, target_tokens, 0, Len(content), 0, 0, 0))

-----------------------------------------------------------------------------
(* extract_key_messages *)

Ref(i, c) == [idx |-> i, copy |-> c]
Refs(rs) == {rs[k] : k \in 1..Len(rs)}
Claimed(rs) == {rs[k].idx : k \in 1..Len(rs)}
CutBy(rs) == {rs[k].idx : k \in {n \in 1..Len(rs) : rs[n].copy}}

Normalize(budget) == Max(0, budget)

\* position of the first block of type "text", 0 when there is none
FirstTextItem(items) ==
    LET ks == {k \in 1..Len(items) : items[k].type = "text"}
    IN  IF ks = {} THEN 0 ELSE CHOOSE k \in ks : \A n \in ks : k <= n

\* truncated_msg = msg.copy() followed by the assignment of the cut text:
\* the copy is shallow, so the assignment lands in the nested dict that the
\* caller's record holds too; the result is the caller's record afterwards
WriteCut(msg, new_text) ==
    IF ~ msg.wrapped \/ msg.kind = "none" THEN msg
    ELSE IF msg.kind = "list"
    THEN LET k == FirstTextItem(msg.items)
         IN  IF k = 0 THEN msg
             ELSE [msg EXCEPT !.items[k].body = new_text]
    ELSE [msg EXCEPT !.text = new_text]

FrontFitsIgnoringUsed(used, tokens, budget) == tokens <= budget

FrontFits(used, tokens, budget) == used + tokens <= budget
BackFits(used, tokens, budget) == used + tokens <= budget
CanCutNoThreshold(remaining) == remaining >= 0

CanCut(remaining) == remaining > MinCutHeadroom

Continue(pos, next_pos, last, this_pass, next_pass) ==
    [pc |-> IF last THEN next_pass ELSE this_pass, pos |-> next_pos]

\* break, when the record is neither kept nor cut: the pass ends where it is
Break(pos, next_pos, last, this_pass, next_pass) == [pc |-> next_pass, pos |-> pos]

\* front_msg_set: the ids of the objects in front_messages
front_msg_set == Refs(front_messages)

\* msg in front_messages or msg in back_messages: list membership compares
\* by value; a copy shares its record's nested dict, so it has its value
InList(i, rs) == \E k \in 1..Len(rs) : messages[rs[k].idx] = messages[i]

RECURSIVE MergeFrom(_)
MergeFrom(i) ==
    IF i > Len(messages) THEN <<>>
    ELSE (IF InList(i, front_messages) \/ InList(i, temp_back)
          THEN <<Ref(i, FALSE)>> ELSE <<>>) \o MergeFrom(i + 1)

MergedByConcat == front_messages \o Reverse(temp_back)

Merged == MergeFrom(1)

\* actual_tokens: the returned records are extracted and counted again
ActualTokens(ex) ==
    Sum([k \in 1..Len(ex) |-> count_tokens(_get_message_content(messages[ex[k].idx]))],
        Len(ex))

\* compression_ratio as the fraction num/den
Ratio(extracted_tokens, total_tokens) ==
    IF total_tokens > 0
    THEN [num |-> total_tokens - extracted_tokens, den |-> total_tokens]
    ELSE [num |-> 0, den |-> 1]

\* the empty dict {} of the early return
EmptyStats == [k \in {} |-> 0]

BigText == Rep(Zh, BigLen)
SmallText == Rep("a", 4)
TinyText == <<"a">>
RecStr(w, t) == [wrapped |-> w, kind |-> "str", text |-> t, items |-> <<>>]
RecList(its) == [wrapped |-> TRUE, kind |-> "list", text |-> <<>>, items |-> its]
TextBlock(t) == [type |-> "text", body |-> t]

RecordKinds ==
    { RecStr(TRUE, BigText), RecStr(TRUE, SmallText), RecStr(TRUE, TinyText),
      RecStr(FALSE, BigText),
      RecList(<<TextBlock(BigText), TextBlock(BigText)>>) }

Transcripts == SeqsUpTo(RecordKinds, MaxRecs)
Budgets == {0, 101, 102, 1000}

\* ten records of 35 ASCII characters, 10 tokens each: all equal, or all different
TenEqual == [k \in 1..10 |-> RecStr(TRUE, Rep("a", 35))]
TenDistinct == [k \in 1..10 |-> RecStr(TRUE, Rep("a", k) \o Rep("b", 35 - k))]

InitExtract ==
    /\ \/ /\ messages \in Transcripts
          /\ front_tokens \in Budgets
          /\ back_tokens \in Budgets
       \/ /\ messages \in {TenEqual, TenDistinct}
          /\ front_tokens = 25
          /\ back_tokens = 75
    /\ original = messages
    /\ message_tokens = <<>>
    /\ front_messages = <<>>
    /\ temp_back = <<>>
    /\ front_token_count = 0
    /\ back_token_count = 0
    /\ fi = 0
    /\ bi = 0
    /\ extracted = <<>>
    /\ stats = EmptyStats
    /\ pc = "start"
    /\ TkIdle
    /\ ClIdle
    /\ MoreIdle

\* lines 506-507: an empty list returns at once
ReturnEmpty ==
    /\ pc = "start"
    /\ messages = <<>>
    /\ extracted' = <<>>
    /\ stats' = EmptyStats
    /\ pc' = "done"
    /\ UNCHANGED <<messages, original, front_tokens, back_tokens, message_tokens,
                   front_messages, temp_back, front_token_count, back_token_count,
                   fi, bi, tkVars, clVars, moreVars>>

\* lines 508-530: the stats dict and the (msg, content, tokens) table
Measure ==
    /\ pc = "start"
    /\ messages # <<>>
    /\ LET table == [k \in 1..Len(messages) |->
                        LET content == _get_message_content(messages[k])
                        IN  [content |-> content,
                             tokens |-> IF content # <<>> THEN count_tokens(content) ELSE 0]]
       IN  /\ message_tokens' = table
           /\ stats' = [total_messages |-> Len(messages),
                        extracted_messages |-> 0,
                        total_tokens |-> Sum([k \in 1..Len(table) |-> table[k].tokens], Len(table)),
                        extracted_tokens |-> 0,
                        compression_ratio |-> [num |-> 0, den |-> 1]]
    /\ fi' = 1
    /\ pc' = "front"
    /\ UNCHANGED <<messages, original, front_tokens, back_tokens, front_messages,
                   temp_back, front_token_count, back_token_count, bi, extracted,
                   tkVars, clVars, moreVars>>

\* lines 531-552: one iteration of the front loop
FrontStep ==
    /\ pc = "front"
    /\ LET tokens == message_tokens[fi].tokens
           content == message_tokens[fi].content
           FRONT_TOKENS == Normalize(front_tokens)
           remaining == FRONT_TOKENS - front_token_count
           truncated_content == _binary_search_truncate(content, remaining)
           last == (fi = Len(messages))
       IN  IF tokens = 0
           THEN /\ UNCHANGED <<messages, front_messages, front_token_count>>
                /\ fi' = fi + 1
                /\ pc' = IF last THEN "back" ELSE "front"
           ELSE IF FrontFits(front_token_count, tokens, FRONT_TOKENS)
           THEN /\ front_messages' = Append(front_messages, Ref(fi, FALSE))
                /\ front_token_count' = front_token_count + tokens
                /\ fi' = fi + 1
                /\ pc' = IF last THEN "back" ELSE "front"
                /\ UNCHANGED messages
           ELSE IF CanCut(remaining)
           THEN /\ messages' = [messages EXCEPT
                                   ![fi] = WriteCut(@, truncated_content \o FrontMarker)]
                /\ front_messages' = Append(front_messages, Ref(fi, TRUE))
                /\ front_token_count' = front_token_count + count_tokens(truncated_content)
                /\ pc' = "back"
                /\ UNCHANGED fi
           ELSE /\ pc' = Break(fi, fi + 1, last, "front", "back").pc
                /\ fi' = Break(fi, fi + 1, last, "front", "back").pos
                /\ UNCHANGED <<messages, front_messages, front_token_count>>
    /\ bi' = Len(messages)
    /\ UNCHANGED <<original, front_tokens, back_tokens, message_tokens, temp_back,
                   back_token_count, extracted, stats, tkVars, clVars, moreVars>>

\* lines 554-583: one iteration of the back loop
BackStep ==
    /\ pc = "back"
    /\ LET tokens == message_tokens[bi].tokens
           content == message_tokens[bi].content
           BACK_TOKENS == Normalize(back_tokens)
           remaining == BACK_TOKENS - back_token_count
           truncated_rev == _binary_search_truncate(Reverse(content), remaining)
           truncated_content == BackMarker \o Reverse(truncated_rev)
           last == (bi = 1)
       IN  IF tokens = 0 \/ Ref(bi, FALSE) \in front_msg_set
           THEN /\ UNCHANGED <<messages, temp_back, back_token_count>>
                /\ bi' = bi - 1
                /\ pc' = IF last THEN "merge" ELSE "back"
           ELSE IF BackFits(back_token_count, tokens, BACK_TOKENS)
           THEN /\ temp_back' = Append(temp_back, Ref(bi, FALSE))
                /\ back_token_count' = back_token_count + tokens
                /\ bi' = bi - 1
                /\ pc' = IF last THEN "merge" ELSE "back"
                /\ UNCHANGED messages
           ELSE IF CanCut(remaining)
           THEN /\ messages' = [messages EXCEPT ![bi] = WriteCut(@, truncated_content)]
                /\ temp_back' = Append(temp_back, Ref(bi, TRUE))
                /\ back_token_count' = back_token_count + count_tokens(truncated_content)
                /\ pc' = "merge"
                /\ UNCHANGED bi
           ELSE /\ pc' = Break(bi, bi - 1, last, "back", "merge").pc
                /\ bi' = Break(bi, bi - 1, last, "back", "merge").pos
                /\ UNCHANGED <<messages, temp_back, back_token_count>>
    /\ UNCHANGED <<original, front_tokens, back_tokens, message_tokens, front_messages,
                   front_token_count, fi, extracted, stats, tkVars, clVars, moreVars>>

\* lines 584-599: merge in original order, recount, return
Merge ==
    /\ pc = "merge"
    /\ extracted' = Merged
    /\ LET actual_tokens == ActualTokens(Merged)
       IN  stats' = [stats EXCEPT
                        !.extracted_messages = Len(Merged),
                        !.extracted_tokens = actual_tokens,
                        !.compression_ratio = Ratio(actual_tokens, stats.total_tokens)]
    /\ pc' = "done"
    /\ UNCHANGED <<messages, original, front_tokens, back_tokens, message_tokens,
                   front_messages, temp_back, front_token_count, back_token_count,
                   fi, bi, tkVars, clVars, moreVars>>

NextExtract == ReturnEmpty \/ Measure \/ FrontStep \/ BackStep \/ Merge

SpecExtract == InitExtract /\ [][NextExtract]_vars

-----------------------------------------------------------------------------
(* Properties of extract_key_messages *)

Done == pc = "done"
Returned == Done /\ original # <<>>
FRONT == Normalize(front_tokens)
BACK == Normalize(back_tokens)
AllPositions == [k \in 1..Len(messages) |-> Ref(k, FALSE)]
RatioIs(n, d) == stats.compression_ratio.num * d = n * stats.compression_ratio.den

\* C1: extracted_tokens is at most F + B + e, where e is the cost of the
\* truncation marker on at most one boundary record per side, under 50 tokens
\* per side.
C1_BudgetInvariant ==
    Returned => stats.extracted_tokens <= FRONT + BACK + 49 + 49

\* C2: no record is claimed by both passes, the boundary record that the
\* front pass cut included.
C2_NoDoubleClaim == Claimed(front_messages) \cap Claimed(temp_back) = {}

\* C3: the returned list is a subsequence of the input list: every returned
\* object is one of the caller's records, positions strictly increase, so the
\* input order is kept and no position is returned twice.
C3_Subsequence ==
    Done =>
        /\ \A k \in 1..Len(extracted) :
              ~ extracted[k].copy /\ extracted[k].idx \in 1..Len(messages)
        /\ \A k \in 1..(Len(extracted) - 1) : extracted[k].idx < extracted[k + 1].idx

C3_Witness ==
    /\ Done
    /\ Len(extracted) >= 2
    /\ CutBy(front_messages) # {}
    /\ temp_back # <<>>

\* C4: the call never mutates the caller's records: every record has the
\* content it had before the call and extracts to the same text.
C4_InputsUnchanged ==
    \A k \in 1..Len(messages) :
        /\ messages[k] = original[k]
        /\ _get_message_content(messages[k]) = _get_message_content(original[k])

\* C7 as stated: budgets 0 and 0 on any non-empty transcript give an empty
\* selection and compression_ratio 1.0.
C7_ZeroBudgetsRatioOne ==
    Returned /\ FRONT = 0 /\ BACK = 0 =>
        /\ extracted = <<>>
        /\ RatioIs(1, 1)

\* C7 amended: budgets 0 and 0 on a non-empty transcript give an empty
\* selection (no whole record and no cut on either side); compression_ratio
\* is 1.0 when the transcript's total token cost is positive and 0 when it
\* is zero.
C7_ZeroBudgets ==
    Returned /\ FRONT = 0 /\ BACK = 0 =>
        /\ extracted = <<>>
        /\ front_messages = <<>>
        /\ temp_back = <<>>
        /\ messages = original
        /\ stats.extracted_tokens = 0
        /\ (stats.total_tokens > 0 => RatioIs(1, 1))
        /\ (stats.total_tokens = 0 => RatioIs(0, 1))

C7_Witness ==
    Returned /\ FRONT = 0 /\ BACK = 0 /\ stats.total_tokens > MinCutHeadroom

\* C8: when frontBudget or backBudget is at least the transcript's total
\* token cost, every input record is returned, none is modified, and
\* compression_ratio is 0.
C8_WholeTranscript ==
    Returned /\ (FRONT >= stats.total_tokens \/ BACK >= stats.total_tokens) =>
        /\ extracted = AllPositions
        /\ messages = original
        /\ RatioIs(0, 1)

\* C9: an empty record list returns an empty selection and zero statistics:
\* record counts 0, token counts 0, compression ratio 0.
C9_EmptyZeroStats ==
    Done /\ original = <<>> =>
        /\ extracted = <<>>
        /\ {"total_messages", "extracted_messages", "total_tokens",
            "extracted_tokens", "compression_ratio"} \subseteq DOMAIN stats
        /\ stats.total_messages = 0
        /\ stats.extracted_messages = 0
        /\ stats.total_tokens = 0
        /\ stats.extracted_tokens = 0
        /\ RatioIs(0, 1)

\* ten records costing 10 tokens each, frontBudget 25, backBudget 75
TenByTen ==
    /\ Done
    /\ Len(messages) = 10
    /\ \A k \in 1..10 : message_tokens[k].tokens = 10
    /\ front_tokens = 25
    /\ back_tokens = 75

\* C10 as stated: the front pass keeps records 1-2 whole plus a cut of
\* record 3, the back pass keeps records 8-10, about 55 tokens are selected
\* and the ratio is about 0.45.
C10_Scenario ==
    TenByTen =>
        /\ front_messages = <<Ref(1, FALSE), Ref(2, FALSE), Ref(3, TRUE)>>
        /\ temp_back = <<Ref(10, FALSE), Ref(9, FALSE), Ref(8, FALSE)>>
        /\ stats.extracted_tokens \in 50..60
        /\ 40 * stats.compression_ratio.den <= 100 * stats.compression_ratio.num
        /\ 100 * stats.compression_ratio.num <= 50 * stats.compression_ratio.den

\* C10 amended: the front pass keeps records 1-2 whole and cuts nothing (the
\* 5 tokens of headroom are not above the 100-token threshold), the back pass
\* keeps records 4-10 whole; the selected total is 90 tokens and the ratio
\* 0.1, or 100 tokens and ratio 0 when record 3 equals a kept record.
C10_ScenarioAmended ==
    TenByTen =>
        /\ front_messages = <<Ref(1, FALSE), Ref(2, FALSE)>>
        /\ temp_back = <<Ref(10, FALSE), Ref(9, FALSE), Ref(8, FALSE), Ref(7, FALSE),
                         Ref(6, FALSE), Ref(5, FALSE), Ref(4, FALSE)>>
        /\ messages = original
        /\ IF \E k \in (1..10) \ {3} : messages[k] = messages[3]
           THEN stats.extracted_tokens = 100 /\ RatioIs(0, 1)
           ELSE stats.extracted_tokens = 90 /\ RatioIs(1, 10)

C10_Witness == TenByTen /\ stats.extracted_tokens = 90 /\ Len(extracted) = 9

\* the tokens of the records before position i, all of which a front pass
\* that has not yet overflowed has taken whole
TokensBefore(i) ==
    Sum([j \in 1..Len(message_tokens) |->
            IF j < i THEN message_tokens[j].tokens ELSE 0], Len(message_tokens))

\* the records the back pass does not skip, and their tokens after position i
BackConsiders(j) ==
    message_tokens[j].tokens > 0 /\ Ref(j, FALSE) \notin front_msg_set

TokensAfter(i) ==
    Sum([j \in 1..Len(message_tokens) |->
            IF j > i /\ BackConsiders(j) THEN message_tokens[j].tokens ELSE 0],
        Len(message_tokens))

\* the first non-empty record that overflows the front budget, 0 when none does
FrontOverflow ==
    LET is == {i \in 1..Len(message_tokens) :
                  /\ message_tokens[i].tokens > 0
                  /\ TokensBefore(i) + message_tokens[i].tokens
                       > Normalize(front_tokens)}
    IN  IF is = {} THEN 0 ELSE CHOOSE i \in is : \A k \in is : i <= k

\* the first record, from the end, that overflows the back budget
BackOverflow ==
    LET is == {i \in 1..Len(message_tokens) :
                  /\ BackConsiders(i)
                  /\ TokensAfter(i) + message_tokens[i].tokens
                       > Normalize(back_tokens)}
    IN  IF is = {} THEN 0 ELSE CHOOSE i \in is : \A k \in is : i >= k

FrontDrops ==
    /\ FrontOverflow > 0
    /\ Normalize(front_tokens) - TokensBefore(FrontOverflow) <= MinCutHeadroom

BackDrops ==
    /\ BackOverflow > 0
    /\ Normalize(back_tokens) - TokensAfter(BackOverflow) <= MinCutHeadroom

\* C20: once a pass is over, if its first overflowing non-empty record met a
\* headroom of at most 100 tokens, the pass holds exactly the non-empty
\* records it met before that one, whole: no fragment of the overflowing
\* record and no later record, even one that would have fitted.
C20_DropStopsPass ==
    /\ (pc \in {"back", "merge", "done"} /\ FrontDrops) =>
          /\ Claimed(front_messages)
               = {j \in 1..(FrontOverflow - 1) : message_tokens[j].tokens > 0}
          /\ CutBy(front_messages) = {}
          /\ front_token_count = TokensBefore(FrontOverflow)
    /\ (pc \in {"merge", "done"} /\ BackDrops) =>
          /\ Claimed(temp_back)
               = {j \in (BackOverflow + 1)..Len(message_tokens) : BackConsiders(j)}
          /\ CutBy(temp_back) = {}
          /\ back_token_count = TokensAfter(BackOverflow)

\* the front pass dropped a record although a later one would have fitted,
\* and the back pass dropped a record too
C20_Witness ==
    /\ pc = "done"
    /\ FrontDrops
    /\ BackDrops
    /\ temp_back # <<>>
    /\ \E j \in (FrontOverflow + 1)..Len(message_tokens) :
          /\ message_tokens[j].tokens > 0
          /\ FrontFits(front_token_count, message_tokens[j].tokens,
                       Normalize(front_tokens))

\* the returned records, extracted and counted as they are at the return
Recount ==
    Sum([k \in 1..Len(extracted) |->
            count_tokens(_get_message_content(messages[extracted[k].idx]))],
        Len(extracted))

\* C21: the returned stats describe the returned list: extracted_messages is
\* its length and extracted_tokens is the sum of the token counts of the
\* returned records as returned, extracted again after any cut.
C21_StatsDescribeReturned ==
    Done =>
        /\ {"extracted_messages", "extracted_tokens"} \subseteq DOMAIN stats
        /\ stats.extracted_messages = Len(extracted)
        /\ stats.extracted_tokens = Recount

\* the last n characters of a text
Suffix(text, n) == SubSeq(text, Len(text) - n + 1, Len(text))

\* the back tokens used by the whole records the back pass has kept
BackUsedWhole ==
    Sum([k \in 1..Len(temp_back) |->
            IF temp_back[k].copy THEN 0 ELSE message_tokens[temp_back[k].idx].tokens],
        Len(temp_back))

\* the tail the back pass wrote into a string record: what follows the marker
KeptTail(k) == Suffix(messages[k].text, Len(messages[k].text) - Len(BackMarker))

\* C23: when the back pass cuts its boundary record, the kept tail is the
\* longest suffix of the record's content whose token count, counted on the
\* suffix itself, is at most the back budget less the back tokens already
\* used.
C23_LongestSuffixFits ==
    \A k \in CutBy(temp_back) :
        (messages[k].wrapped /\ messages[k].kind = "str") =>
            LET content == message_tokens[k].content
                remaining == BACK - BackUsedWhole
            IN  /\ Len(KeptTail(k)) <= Len(content)
                /\ KeptTail(k) = Suffix(content, Len(KeptTail(k)))
                /\ count_tokens(KeptTail(k)) <= remaining
                /\ \A n \in (Len(KeptTail(k)) + 1)..Len(content) :
                      count_tokens(Suffix(content, n)) > remaining

\* the front tokens used by the whole records the front pass has kept
FrontUsedWhole ==
    Sum([k \in 1..Len(front_messages) |->
            IF front_messages[k].copy THEN 0
            ELSE message_tokens[front_messages[k].idx].tokens],
        Len(front_messages))

\* the positions of the returned records
ReturnedPositions == {extracted[k].idx : k \in 1..Len(extracted)}

\* C24: the budgets are consumed independently: the whole records of the
\* front pass cost at most frontBudget and those of the back pass at most
\* backBudget; with frontBudget = 0 the returned records are a contiguous
\* tail of the transcript, with backBudget = 0 a contiguous head.
C24_IndependentBudgets ==
    Returned =>
        /\ FrontUsedWhole <= FRONT
        /\ BackUsedWhole <= BACK
        /\ FRONT = 0 =>
              \E m \in 1..(Len(messages) + 1) : ReturnedPositions = m..Len(messages)
        /\ BACK = 0 =>
              \E m \in 0..Len(messages) : ReturnedPositions = 1..m

\* C26: every returned record was kept by the front pass or by the back
\* pass; a record of the dropped middle is not returned, equal in value to
\* a kept record or not.
C26_OnlyKeptReturned ==
    Done => ReturnedPositions \subseteq Claimed(front_messages) \cup Claimed(temp_back)

\* C27: extracted_tokens never exceeds total_tokens, so compression_ratio
\* lies in [0, 1], also when a boundary record was cut and given a marker.
C27_RatioInUnitInterval ==
    Returned =>
        /\ stats.extracted_tokens <= stats.total_tokens
        /\ 0 <= stats.compression_ratio.num
        /\ stats.compression_ratio.num <= stats.compression_ratio.den

-----------------------------------------------------------------------------
(* _binary_search_truncate, one loop iteration at a time, for any token    *)
(* counter.  A prefix content[:k] is given by its length k, and a counter  *)
(* by the number of tokens it gives each prefix length.                    *)

MaxBisectLen == 4   \* length of a content whose counter is any table
MaxTok == 2         \* largest count in a table

\* the longest content on which 20 halvings reach a single position
ConvergeLimit == 2 ^ BisectIterations

Table(tab) == [kind |-> "table", d |-> 0, tab |-> tab]
Family(kind, d) == [kind |-> kind, d |-> d, tab |-> <<>>]

\* self.count_tokens(content[:k]); count_tokens("") is 0
Count(c, k) ==
    IF k = 0 THEN 0
    ELSE CASE c.kind = "table" -> c.tab[k]
           [] c.kind = "div" -> k \div c.d
           [] c.kind = "mod" -> k % c.d
           [] c.kind = "cjk" -> count_tokens(Rep(Zh, k))
           [] OTHER -> 0

MonotoneCounter(c, n) ==
    CASE c.kind = "table" -> \A k \in 1..(n - 1) : c.tab[k] <= c.tab[k + 1]
      [] c.kind = "div" -> TRUE
      [] c.kind = "mod" -> n < c.d
      [] c.kind = "cjk" -> \A k \in 0..(n - 1) : Count(c, k) <= Count(c, k + 1)
      [] OTHER -> FALSE

BisectInputs ==
    {[len |-> n, counter |-> Table(tab)] :
        <<n, tab>> \in UNION {{n} \X [1..n -> 0..MaxTok] : n \in 0..MaxBisectLen}}
    \cup {[len |-> n, counter |-> Family(kind, d)] :
            n \in {MaxBisectLen + 1, ConvergeLimit, ConvergeLimit + 1, 2 * ConvergeLimit},
            kind \in {"div", "mod"}, d \in {1, 2, 3}}
    \cup {[len |-> BigLen, counter |-> Family("cjk", 0)]}

BisectTargets(in) ==
    (0..MaxTok) \cup {in.len \div 2, Max(0, Count(in.counter, in.len) - 1)}

InitBisect ==
    /\ \E in \in BisectInputs :
          /\ bs_len = in.len
          /\ bs_counter = in.counter
          /\ bs_target \in BisectTargets(in)
    /\ bs_left = 0
    /\ bs_right = 0
    /\ bs_best_pos = 0
    /\ bs_best_tokens = 0
    /\ bs_iter = 0
    /\ bs_result = 0
    /\ bs_pc = "start"
    /\ BsRestIdle

\* if not content: return ""; if full_tokens <= target_tokens: return content
BisectStart ==
    /\ bs_pc = "start"
    /\ IF bs_len = 0
       THEN bs_result' = 0 /\ bs_pc' = "done" /\ UNCHANGED bs_right
       ELSE IF Count(bs_counter, bs_len) <= bs_target
            THEN bs_result' = bs_len /\ bs_pc' = "done" /\ UNCHANGED bs_right
            ELSE bs_right' = bs_len /\ bs_pc' = "loop" /\ UNCHANGED bs_result
    /\ UNCHANGED <<bs_len, bs_counter, bs_target, bs_left, bs_best_pos,
                   bs_best_tokens, bs_iter, bsRest>>

WithinTargetOffByOne(tokens, target_tokens) == tokens <= target_tokens + 1

\* if tokens <= target_tokens
WithinTarget(tokens, target_tokens) == tokens <= target_tokens

\* one iteration of for _ in range(20) that does not break
BisectIter ==
    /\ bs_pc = "loop"
    /\ bs_iter < BisectIterations
    /\ ~(bs_left >= bs_right - 1)
    /\ LET mid == (bs_left + bs_right) \div 2
           tokens == Count(bs_counter, mid)
       IN  IF WithinTarget(tokens, bs_target)
           THEN /\ IF tokens > bs_best_tokens
                   THEN bs_best_pos' = mid /\ bs_best_tokens' = tokens
                   ELSE UNCHANGED <<bs_best_pos, bs_best_tokens>>
                /\ bs_left' = mid
                /\ UNCHANGED bs_right
           ELSE /\ bs_right' = mid
                /\ UNCHANGED <<bs_left, bs_best_pos, bs_best_tokens>>
    /\ bs_iter' = bs_iter + 1
    /\ UNCHANGED <<bs_len, bs_counter, bs_target, bs_result, bs_pc, bsRest>>

\* the loop breaks or runs out of iterations: return content[:best_pos]
BisectReturn ==
    /\ bs_pc = "loop"
    /\ bs_iter = BisectIterations \/ bs_left >= bs_right - 1
    /\ bs_result' = bs_best_pos
    /\ bs_pc' = "done"
    /\ UNCHANGED <<bs_len, bs_counter, bs_target, bs_left, bs_right, bs_best_pos,
                   bs_best_tokens, bs_iter, bsRest>>

NextBisect == BisectStart \/ BisectIter \/ BisectReturn

SpecBisect == InitBisect /\ [][NextBisect]_vars

\* C11: whatever the counter and the target, and whether the search
\* converged or ran out of its 20 iterations, the returned text is a prefix
\* of the content and its token count is at most the target.
C11_PrefixWithinTarget ==
    bs_pc = "done" =>
        /\ bs_result \in 0..bs_len
        /\ Count(bs_counter, bs_result) <= bs_target

\* a search that ran out of iterations before converging and returned a
\* non-empty proper prefix
C11_Witness ==
    /\ bs_pc = "done"
    /\ bs_iter = BisectIterations
    /\ bs_left < bs_right - 1
    /\ bs_result \in 1..(bs_len - 1)

\* with a monotone counter, the longest fitting prefix is the one whose
\* extension by one character no longer fits
LongestFitting ==
    bs_result = bs_len \/ Count(bs_counter, bs_result + 1) > bs_target

\* C12: with a counter that is monotone in the prefix length and a content
\* of at most 2^20 characters, the returned prefix is the longest prefix
\* whose count is at most the target.
C12_LongestPrefix ==
    (bs_pc = "done" /\ bs_len <= ConvergeLimit /\ MonotoneCounter(bs_counter, bs_len))
        => LongestFitting

-----------------------------------------------------------------------------
(* _get_message_content on records of any shape.  A field value is given   *)
(* by its type, its characters when it is a string, and n: the length of a *)
(* string, list or dict, or the number itself.                             *)

MaxBlocks == 2      \* content blocks of a record

StrV(s) == [ty |-> "str", s |-> s, n |-> Len(s)]
IntV(n) == [ty |-> "int", s |-> <<>>, n |-> n]
ListV(n) == [ty |-> "list", s |-> <<>>, n |-> n]
DictV(n) == [ty |-> "dict", s |-> <<>>, n |-> n]
NullV == [ty |-> "null", s |-> <<>>, n |-> 0]
Absent == [ty |-> "absent", s |-> <<>>, n |-> 0]

\* if v:
Truthy(v) == v.n # 0

\* item.get(key, default)
Get(v, default) == IF v.ty = "absent" THEN default ELSE v

Digit(n) == <<"0", "1", "2", "3", "4", "5", "6", "7", "8", "9">>[n + 1]

\* str(v), as an f-string formats it
Str(v) ==
    CASE v.ty = "str" -> v.s
      [] v.ty = "int" -> <<Digit(v.n)>>
      [] v.ty = "null" -> <<"N", "o", "n", "e">>

SignatureTag == <<"[", "S", "i", "g", "n", "a", "t", "u", "r", "e", "]", " ">>
Unknown == <<"u", "n", "k", "n", "o", "w", "n">>
Hi == <<"h", "i">>

sanitize_tool_call(tool_name, tool_input) ==
    <<"[", "T", "o", "o", "l", ":", " ">> \o Str(tool_name) \o <<"]">>

sanitize_tool_result(result_content) ==
    <<"[", "T", "o", "o", "l", " ", "R", "e", "s", "u", "l", "t", "]">>

ToolResultsItems(n) ==
    <<"[", "T", "o", "o", "l", " ", "r", "e", "s", "u", "l", "t", "s", ":", " ">>
    \o <<Digit(n)>> \o <<" ", "i", "t", "e", "m", "s", "]">>

\* a content block: a dict with its type and two fields (text; thinking and
\* signature; name and input; content), a bare string, or anything else
DictBlock(type, a, b) == [shape |-> "dict", type |-> type, a |-> a, b |-> b]
StrBlock(s) == [shape |-> "str", type |-> "", a |-> StrV(s), b |-> Absent]
OtherBlock == [shape |-> "other", type |-> "", a |-> Absent, b |-> Absent]

\* what the loop body appends to texts for one item of a content list
ContentItem(item) ==
    IF item.shape = "dict"
    THEN CASE item.type = "text" ->
                  LET t == Get(item.a, StrV(<<>>))
                  IN  IF Truthy(t) THEN <<t>> ELSE <<>>
           [] item.type = "thinking" ->
                  LET th == Get(item.a, StrV(<<>>))
                      sig == Get(item.b, StrV(<<>>))
                  IN  (IF Truthy(th) THEN <<StrV(ThinkingTag \o Str(th))>> ELSE <<>>)
                      \o (IF Truthy(sig) THEN <<StrV(SignatureTag \o Str(sig))>> ELSE <<>>)
           [] item.type = "tool_use" ->
                  <<StrV(sanitize_tool_call(Get(item.a, StrV(Unknown)),
                                            Get(item.b, DictV(0))))>>
           [] item.type = "tool_result" ->
                  LET result_content == Get(item.a, StrV(<<>>))
                  IN  IF result_content.ty = "list"
                      THEN <<StrV(ToolResultsItems(result_content.n))>>
                      ELSE IF Truthy(result_content)
                           THEN <<StrV(sanitize_tool_result(Str(result_content)))>>
                           ELSE <<>>
           [] OTHER -> <<>>
    ELSE IF item.shape = "str" THEN <<item.a>>
    ELSE <<>>

RECURSIVE ContentItems(_)
ContentItems(items) ==
    IF items = <<>> THEN <<>>
    ELSE ContentItem(Head(items)) \o ContentItems(Tail(items))

\* a record: whether it is a dict, what its "message" key holds, and the
\* "content", "text" and "thinking" keys of the dict that is looked into
\* (the nested message when it is a dict, the record itself otherwise)
Rec(isdict, message, content, items, text, thinking) ==
    [isdict |-> isdict, message |-> message, content |-> content, items |-> items,
     text |-> text, thinking |-> thinking]

\* the values appended to texts by extract_all(msg)
extract_all(msg) ==
    IF ~ msg.isdict THEN <<>>
    ELSE IF msg.content.ty # "absent"
         THEN IF msg.content.ty = "list" THEN ContentItems(msg.items)
              ELSE IF msg.content.ty = "str" /\ Truthy(msg.content)
                   THEN <<msg.content>>
                   ELSE <<>>
         ELSE IF msg.text.ty = "str" THEN <<msg.text>>
         ELSE IF msg.thinking.ty = "str"
              THEN <<StrV(ThinkingTag \o msg.thinking.s)>>
              ELSE <<>>

\* "\n".join(texts): raises TypeError when an item is not a string
JoinTexts(texts) ==
    IF \E k \in 1..Len(texts) : texts[k].ty # "str"
    THEN [raised |-> TRUE, text |-> <<>>]
    ELSE [raised |-> FALSE, text |-> Join([k \in 1..Len(texts) |-> texts[k].s], <<NL>>)]

GcBlocks ==
    {DictBlock("text", v, Absent) :
        v \in {StrV(Hi), StrV(<<>>), IntV(5), IntV(0), ListV(1), NullV, Absent}}
    \cup {DictBlock("thinking", StrV(Hi), Absent), DictBlock("thinking", IntV(5), IntV(5)),
          DictBlock("thinking", Absent, StrV(Hi)), DictBlock("thinking", NullV, NullV)}
    \cup {DictBlock("tool_use", StrV(<<"W", "r", "i", "t", "e">>), DictV(1)),
          DictBlock("tool_use", StrV(<<"W", "r", "i", "t", "e">>), StrV(Hi)),
          DictBlock("tool_use", Absent, Absent), DictBlock("tool_use", IntV(5), NullV)}
    \cup {DictBlock("tool_result", v, Absent) : v \in {StrV(Hi), IntV(5), ListV(2), Absent}}
    \cup {DictBlock("image", Absent, Absent), StrBlock(Hi), StrBlock(<<>>), OtherBlock}

GcRecords ==
    {Rec(FALSE, "absent", Absent, <<>>, Absent, Absent)}
    \cup {Rec(TRUE, m, ListV(Len(items)), items, StrV(Hi), Absent) :
            m \in {"dict", "other", "absent"}, items \in SeqsUpTo(GcBlocks, MaxBlocks)}
    \cup {Rec(TRUE, m, c, <<>>, StrV(Hi), StrV(Hi)) :
            m \in {"dict", "other", "absent"},
            c \in {StrV(Hi), StrV(<<>>), IntV(5), NullV, DictV(1)}}
    \cup {Rec(TRUE, m, Absent, <<>>, t, th) :
            m \in {"dict", "other", "absent"},
            t \in {StrV(Hi), StrV(<<>>), IntV(5), Absent},
            th \in {StrV(Hi), IntV(5), Absent}}

InitContent ==
    /\ gc_msg \in GcRecords
    /\ gc_msg0 = gc_msg
    /\ gc_texts = <<>>
    /\ gc_out = [raised |-> FALSE, text |-> <<>>]
    /\ gc_out2 = [raised |-> FALSE, text |-> <<>>]
    /\ gc_pc = "start"
    /\ GcRestIdle

KeptTexts(previous) == previous

\* texts: List[str] = [] : every call starts from a new empty list
FreshTexts(previous) == <<>>

\* the first call; no statement of it stores into the record
GetContent ==
    /\ gc_pc = "start"
    /\ gc_texts' = FreshTexts(gc_texts) \o extract_all(gc_msg)
    /\ gc_out' = JoinTexts(gc_texts')
    /\ gc_pc' = "once"
    /\ UNCHANGED <<gc_msg, gc_msg0, gc_out2, gcRest>>

\* a second call on the same record
GetContentAgain ==
    /\ gc_pc = "once"
    /\ gc_texts' = FreshTexts(gc_texts) \o extract_all(gc_msg)
    /\ gc_out2' = JoinTexts(gc_texts')
    /\ gc_pc' = "twice"
    /\ UNCHANGED <<gc_msg, gc_msg0, gc_out, gcRest>>

NextContent == GetContent \/ GetContentAgain

SpecContent == InitContent /\ [][NextContent]_vars

\* C14: _get_message_content never raises, whatever the shape of the record
\* (missing fields, wrong-typed fields, blocks that are no dicts); content
\* it cannot resolve contributes the empty string.
C14_NeverRaises == gc_pc # "start" => ~ gc_out.raised

-----------------------------------------------------------------------------
(* display_page: the session infos of one page computed by a worker pool.  *)
(* Computing the info of a session succeeds ("ok"), raises while the       *)
(* placeholder of process_session_worker can still be built ("soft"), or   *)
(* raises there too ("hard": the file cannot be stat-ed).                  *)

MaxPage == 3        \* items of a page

Outcomes == {"ok", "soft", "hard"}

NoEntry == [src |-> "none", idx |-> 0]
\* self.extractor.get_session_info(item['path']) with info['path'] set
Info(i) == [src |-> "info", idx |-> i]
\* base_items[i], the entry of self.sessions
Item(i) == [src |-> "item", idx |-> i]
\* the info dict built by the except branch of process_session_worker
WorkerPlaceholder(i) == [src |-> "worker_placeholder", idx |-> i]

\* _compute(item), and the body of the serial loop
Compute(i) == IF pg_outcome[i] = "ok" THEN Info(i) ELSE Item(i)

InitPage ==
    /\ pg_n \in 2..MaxPage
    /\ pg_outcome \in [1..pg_n -> Outcomes]
    /\ pg_mode \in {"threads", "processes"}
    /\ pg_futures = [i \in 1..pg_n |-> "new"]
    /\ pg_order = <<>>
    /\ pg_results = [i \in 1..pg_n |-> NoEntry]
    /\ pg_page = <<>>
    /\ pg_k = 0
    /\ pg_pc = "start"
    /\ PgRestIdle

\* the pool is created and every item is submitted
Submit ==
    /\ pg_pc = "start"
    /\ pg_futures' = [i \in 1..pg_n |-> "running"]
    /\ pg_page' = IF pg_mode = "threads" THEN [i \in 1..pg_n |-> NoEntry] ELSE <<>>
    /\ pg_k' = 1
    /\ pg_pc' = "pool"
    /\ UNCHANGED <<pg_n, pg_outcome, pg_mode, pg_order, pg_results, pgRest>>

\* a worker ends its computation
WorkerFinish(i) ==
    /\ pg_pc = "pool"
    /\ pg_futures[i] = "running"
    /\ pg_futures' = [pg_futures EXCEPT ![i] = "finished"]
    /\ UNCHANGED <<pg_n, pg_outcome, pg_mode, pg_order, pg_results, pg_page, pg_k,
                   pg_pc, pgRest>>

ArrivalSlot(i, arrived) == arrived + 1

\* i = future_to_idx[fut]
future_to_idx(i, arrived) == i

\* for fut in as_completed(...): page_sessions[i] = fut.result()
TakeCompleted(i) ==
    /\ pg_pc = "pool"
    /\ pg_mode = "threads"
    /\ pg_futures[i] = "finished"
    /\ pg_page' = [pg_page EXCEPT ![future_to_idx(i, Len(pg_order))] = Compute(i)]
    /\ pg_futures' = [pg_futures EXCEPT ![i] = "taken"]
    /\ pg_order' = Append(pg_order, i)
    /\ UNCHANGED <<pg_n, pg_outcome, pg_mode, pg_results, pg_k, pg_pc, pgRest>>

\* page_sessions = [ps if ps is not None else base_items[i] ...]
ThreadsDone ==
    /\ pg_pc = "pool"
    /\ pg_mode = "threads"
    /\ \A i \in 1..pg_n : pg_futures[i] = "taken"
    /\ pg_page' = [i \in 1..pg_n |-> IF pg_page[i] = NoEntry THEN Item(i) ELSE pg_page[i]]
    /\ pg_pc' = "done"
    /\ UNCHANGED <<pg_n, pg_outcome, pg_mode, pg_futures, pg_order, pg_results, pg_k,
                   pgRest>>

\* for idx, info in ex.map(process_session_worker, args): the results come
\* in the order of the arguments; a worker that raised raises here, and the
\* except branch of display_page starts the serial loop
MapNext ==
    /\ pg_pc = "pool"
    /\ pg_mode = "processes"
    /\ pg_k <= pg_n
    /\ pg_futures[pg_k] = "finished"
    /\ pg_futures' = [pg_futures EXCEPT ![pg_k] = "taken"]
    /\ pg_order' = Append(pg_order, pg_k)
    /\ IF pg_outcome[pg_k] = "hard"
       THEN /\ pg_pc' = "serial"
            /\ pg_k' = 1
            /\ UNCHANGED pg_results
       ELSE /\ pg_results' = [pg_results EXCEPT ![pg_k] =
                                 IF pg_outcome[pg_k] = "ok" THEN Info(pg_k)
                                 ELSE WorkerPlaceholder(pg_k)]
            /\ pg_k' = pg_k + 1
            /\ UNCHANGED pg_pc
    /\ UNCHANGED <<pg_n, pg_outcome, pg_mode, pg_page, pgRest>>

\* page_sessions = [results[i] if i in results else base_items[i] ...]
MapDone ==
    /\ pg_pc = "pool"
    /\ pg_mode = "processes"
    /\ pg_k > pg_n
    /\ pg_page' = [i \in 1..pg_n |-> IF pg_results[i] = NoEntry THEN Item(i) ELSE pg_results[i]]
    /\ pg_pc' = "done"
    /\ UNCHANGED <<pg_n, pg_outcome, pg_mode, pg_futures, pg_order, pg_results, pg_k,
                   pgRest>>

\* the serial loop of the except branch: one item
SerialStep ==
    /\ pg_pc = "serial"
    /\ pg_page' = Append(pg_page, Compute(pg_k))
    /\ pg_k' = pg_k + 1
    /\ pg_pc' = IF pg_k = pg_n THEN "done" ELSE "serial"
    /\ UNCHANGED <<pg_n, pg_outcome, pg_mode, pg_futures, pg_order, pg_results, pgRest>>

NextPage ==
    \/ Submit
    \/ \E i \in 1..pg_n : WorkerFinish(i)
    \/ \E i \in 1..pg_n : TakeCompleted(i)
    \/ ThreadsDone
    \/ MapNext
    \/ MapDone
    \/ SerialStep

SpecPage == InitPage /\ [][NextPage]_vars

\* C15: when a page is computed by a worker pool, a failure computing one
\* session changes that session's entry only, which is then that item's
\* placeholder; every other entry is its own computed info at its own
\* position, whatever the order in which the workers complete.
C15_FailureIsolated ==
    pg_pc = "done" =>
        /\ Len(pg_page) = pg_n
        /\ \A i \in 1..pg_n :
              IF pg_outcome[i] = "ok" THEN pg_page[i] = Info(i)
              ELSE pg_page[i] \in {Item(i), WorkerPlaceholder(i)}

\* a page of threads whose last item completed first and one of which failed
C15_Witness ==
    /\ pg_pc = "done"
    /\ pg_mode = "threads"
    /\ pg_n = MaxPage
    /\ pg_order[1] = pg_n
    /\ pg_outcome[1] = "ok" /\ pg_outcome[2] # "ok" /\ pg_outcome[pg_n] = "ok"

-----------------------------------------------------------------------------
(* InteractiveSessionSelector: the key loop of run().  A key is the        *)
(* character read, with the number typed at the prompt of j and s (-1 for  *)
(* an input that is no number or an end of input, -2 for a digit outside   *)
(* ASCII, which isdigit accepts and int rejects).  "EOF" is the end of the *)
(* input where a key is read in line mode.                                 *)

MaxSessions == 10   \* sessions given to the selector
MaxInitSize == 3    \* page_size given to the constructor
MaxTyped == 5       \* largest small number typed at a prompt
PageSizeLimit == 20

Key(ch, arg) == [ch |-> ch, arg |-> arg]

QuitKeys == {"ESC", "q", "Q", "CtrlC"}

Keys ==
    {Key(ch, 0) : ch \in QuitKeys \cup {"n", "N", "b", "B", "g", "G", "h", "H", "x", "",
                                        "EOF"}}
    \cup {Key("digit", d) : d \in 0..9}
    \cup {Key("digit", -2)}
    \cup {Key(ch, a) : ch \in {"j", "J", "s", "S"},
                       a \in (-2..MaxTyped) \cup {PageSizeLimit, PageSizeLimit + 1}}

\* (len(sessions) + page_size - 1) // page_size
total_pages(len, page_size) == (len + page_size - 1) \div page_size

InitSelector ==
    /\ ui_len \in 0..MaxSessions
    /\ ui_page_size \in 1..MaxInitSize
    /\ ui_current_page = 0
    /\ ui_total_pages = total_pages(ui_len, ui_page_size)
    /\ ui_show_help = FALSE
    /\ ui_key = Key("", 0)
    /\ ui_result = -1
    /\ ui_pc = "loop"
    /\ UiRestIdle

KeepPagination(len, page_size, current_page) ==
    [total_pages |-> ui_total_pages, current_page |-> current_page]

_recompute_pagination(len, page_size, current_page) ==
    LET total == total_pages(len, page_size)
    IN  [total_pages |-> total,
         current_page |-> IF current_page >= total THEN Max(0, total - 1)
                          ELSE current_page]

ActualIdxOfFirstPage(current_page, page_size, idx) == idx

\* actual_idx = self.current_page * self.page_size + idx
actual_idx(current_page, page_size, idx) == current_page * page_size + idx

\* the digit key k returns a session
Selects(k) ==
    /\ k.ch = "digit"
    /\ k.arg >= 1
    /\ k.arg <= ui_page_size
    /\ actual_idx(ui_current_page, ui_page_size, k.arg - 1) < ui_len

\* int() of a digit that is not ASCII raises ValueError and input() at the
\* end of the input raises EOFError; run() catches neither
Raises(k) == (k.ch \in {"digit", "j", "J", "s", "S"} /\ k.arg = -2) \/ k.ch = "EOF"

\* q, Q, ESC, or an interrupt: return None
Quit(k) ==
    /\ ui_pc = "loop"
    /\ k.ch \in QuitKeys
    /\ ui_key' = k
    /\ ui_result' = -1
    /\ ui_pc' = "returned"
    /\ UNCHANGED <<ui_len, ui_page_size, ui_current_page, ui_total_pages, ui_show_help,
                   uiRest>>

\* a digit key with a session behind it: return self.sessions[actual_idx]
Select(k) ==
    /\ ui_pc = "loop"
    /\ Selects(k)
    /\ ui_key' = k
    /\ ui_result' = actual_idx(ui_current_page, ui_page_size, k.arg - 1)
    /\ ui_pc' = "returned"
    /\ UNCHANGED <<ui_len, ui_page_size, ui_current_page, ui_total_pages, ui_show_help,
                   uiRest>>

\* int() raises on the key or on the prompt's input
KeyRaises(k) ==
    /\ ui_pc = "loop"
    /\ Raises(k)
    /\ ui_key' = k
    /\ ui_pc' = "raised"
    /\ UNCHANGED <<ui_len, ui_page_size, ui_current_page, ui_total_pages, ui_show_help,
                   ui_result, uiRest>>

\* every other key: the chain of ifs, then the loop displays the page again
Press(k) ==
    /\ ui_pc = "loop"
    /\ k.ch \notin QuitKeys
    /\ ~ Selects(k)
    /\ ~ Raises(k)
    /\ ui_key' = k
    /\ IF k.ch \in {"j", "J"}
       THEN /\ ui_current_page' =
                  IF 1 <= k.arg /\ k.arg <= ui_total_pages THEN k.arg - 1
                  ELSE ui_current_page
            /\ UNCHANGED <<ui_page_size, ui_total_pages, ui_show_help>>
       ELSE IF k.ch = "n"
       THEN /\ ui_current_page' =
                  IF ui_current_page < ui_total_pages - 1 THEN ui_current_page + 1
                  ELSE ui_current_page
            /\ UNCHANGED <<ui_page_size, ui_total_pages, ui_show_help>>
       ELSE IF k.ch \in {"N", "b", "B"}
       THEN /\ ui_current_page' =
                  IF ui_current_page > 0 THEN ui_current_page - 1 ELSE ui_current_page
            /\ UNCHANGED <<ui_page_size, ui_total_pages, ui_show_help>>
       ELSE IF k.ch = "g"
       THEN /\ ui_current_page' = 0
            /\ UNCHANGED <<ui_page_size, ui_total_pages, ui_show_help>>
       ELSE IF k.ch = "G"
       THEN /\ ui_current_page' =
                  IF ui_total_pages > 0 THEN ui_total_pages - 1 ELSE ui_current_page
            /\ UNCHANGED <<ui_page_size, ui_total_pages, ui_show_help>>
       ELSE IF k.ch \in {"s", "S"}
       THEN IF 1 <= k.arg /\ k.arg <= PageSizeLimit
            THEN LET r == _recompute_pagination(ui_len, k.arg, ui_current_page)
                 IN  /\ ui_page_size' = k.arg
                     /\ ui_total_pages' = r.total_pages
                     /\ ui_current_page' = r.current_page
                     /\ UNCHANGED ui_show_help
            ELSE UNCHANGED <<ui_page_size, ui_total_pages, ui_current_page, ui_show_help>>
       ELSE IF k.ch \in {"h", "H"}
       THEN /\ ui_show_help' = ~ ui_show_help
            /\ UNCHANGED <<ui_page_size, ui_total_pages, ui_current_page>>
       ELSE UNCHANGED <<ui_page_size, ui_total_pages, ui_current_page, ui_show_help>>
    /\ UNCHANGED <<ui_len, ui_result, ui_pc, uiRest>>

NextSelector ==
    \E k \in Keys : Quit(k) \/ Select(k) \/ KeyRaises(k) \/ Press(k)

SpecSelector == InitSelector /\ [][NextSelector]_vars

\* the least q with q * b >= a
CeilDiv(a, b) == CHOOSE q \in 0..a : q * b >= a /\ (q = 0 \/ (q - 1) * b < a)

\* C17: after any keys (n, N/b, g, G, j with any page number, s with any
\* page size 1-20, h) total_pages is ceil(len(sessions) / page_size) and
\* 0 <= current_page <= max(0, total_pages - 1).
C17_PaginationConsistent ==
    ui_pc # "idle" =>
        /\ ui_total_pages = CeilDiv(ui_len, ui_page_size)
        /\ 0 <= ui_current_page
        /\ ui_current_page <= Max(0, ui_total_pages - 1)

\* the page size was made larger on a later page and the page was clamped
\* to the new last page
C17_Witness ==
    /\ ui_pc = "loop"
    /\ ui_key = Key("s", MaxTyped)
    /\ ui_len = MaxSessions
    /\ ui_page_size = MaxTyped
    /\ ui_current_page = ui_total_pages - 1
    /\ ui_current_page > 0

\* C18: run() returns None (on q, Q, ESC or an interrupt) or, for a digit
\* key d, the session at index current_page * page_size + (d - 1); it
\* returns no session of another page and no index out of range, and a
\* digit with no session behind it selects nothing.
C18_ReturnsPageSession ==
    /\ ui_pc = "returned" =>
          \/ ui_result = -1 /\ ui_key.ch \in QuitKeys
          \/ /\ ui_key.ch = "digit"
             /\ ui_key.arg \in 1..ui_page_size
             /\ ui_result = ui_current_page * ui_page_size + (ui_key.arg - 1)
             /\ ui_result \in 0..(ui_len - 1)
    /\ (ui_pc = "loop" /\ ui_key.ch = "digit") =>
          \/ ui_key.arg \notin 1..ui_page_size
          \/ ui_current_page * ui_page_size + (ui_key.arg - 1) >= ui_len

\* the session under a digit of a later page is returned
C18_Witness ==
    /\ ui_pc = "returned"
    /\ ui_current_page > 0
    /\ ui_key.ch = "digit"
    /\ ui_key.arg > 1
    /\ ui_result = ui_current_page * ui_page_size + ui_key.arg - 1

\* the sessions display_page shows: positions 1..OnPage of the current page
OnPage == Max(0, Min(ui_page_size, ui_len - ui_current_page * ui_page_size))

\* C28: every session shown on the current page can be selected: for every
\* position p on the page there is a key after which run() returns the
\* session at that position.
C28_EveryShownSelectable ==
    ui_pc = "loop" =>
        \A p \in 1..OnPage :
            \E k \in Keys :
                /\ Selects(k)
                /\ actual_idx(ui_current_page, ui_page_size, k.arg - 1)
                     = ui_current_page * ui_page_size + p - 1

-----------------------------------------------------------------------------
(* main(): the choice loop of the session-detail screen and the            *)
(* compression path behind it.                                             *)

MaxMessageCount == 3    \* message_count of the selected session
ResumeBelow == 100000
EmptyUpTo == 2

MenuTokens == {0, 1, ResumeBelow - 1, ResumeBelow, ResumeBelow + 1, 2 * ResumeBelow + 1}
Choices == {"q", "b", "r", "d", "c", "x", "", "interrupt", "EOF"}

InitMenu ==
    /\ mn_tokens \in MenuTokens
    /\ mn_message_count \in 0..MaxMessageCount
    /\ mn_output \in BOOLEAN
    /\ mn_parsed \in BOOLEAN
    /\ mn_choice = ""
    /\ mn_pc = "menu"
    /\ MnRestIdle

AnySession == TRUE

\* selected_info["tokens"] == 0 or selected_info["message_count"] <= 2
EmptySession == mn_tokens = 0 \/ mn_message_count <= EmptyUpTo

SmallUpToThreshold(tokens) == tokens <= ResumeBelow

\* if selected_info["tokens"] < 100000
Small(tokens) == tokens < ResumeBelow

\* one pass of the while loop: what the choice leads to
AfterChoice(choice) ==
    IF choice = "interrupt" \/ choice = "q" THEN "quit"
    ELSE IF choice = "EOF" THEN "raised"
    ELSE IF choice = "b" THEN "back"
    ELSE IF choice = "r" THEN "resumed"
    ELSE IF choice = "d" /\ EmptySession THEN "deleting"
    ELSE IF choice = "c" /\ mn_tokens > 0
         THEN IF Small(mn_tokens) THEN "resumed" ELSE "compress"
    ELSE "menu"

Choose(choice) ==
    /\ mn_pc = "menu"
    /\ mn_choice' = choice
    /\ mn_pc' = AfterChoice(choice)
    /\ UNCHANGED <<mn_tokens, mn_message_count, mn_output, mn_parsed, mnRest>>

\* selected.unlink(): the list is shown again, or the deletion fails and the
\* loop asks again
Delete ==
    /\ mn_pc = "deleting"
    /\ mn_pc' \in {"back", "menu"}
    /\ UNCHANGED <<mn_tokens, mn_message_count, mn_output, mn_parsed, mn_choice, mnRest>>

\* messages = extractor.parse_session(selected); if not messages: sys.exit(1)
Parse ==
    /\ mn_pc = "compress"
    /\ mn_pc' = IF mn_parsed THEN "extracted" ELSE "exit1"
    /\ UNCHANGED <<mn_tokens, mn_message_count, mn_output, mn_parsed, mn_choice, mnRest>>

\* the summary is written to --output when given, and piped to claude
\* otherwise (args.send was set by the menu)
Deliver ==
    /\ mn_pc = "extracted"
    /\ mn_pc' = IF mn_output THEN "saved" ELSE "sent"
    /\ UNCHANGED <<mn_tokens, mn_message_count, mn_output, mn_parsed, mn_choice, mnRest>>

NextMenu == (\E choice \in Choices : Choose(choice)) \/ Delete \/ Parse \/ Deliver

SpecMenu == InitMenu /\ [][NextMenu]_vars

CompressionPath == {"compress", "extracted", "exit1", "saved", "sent"}

C29_DeletesOnlyEmpty ==
    (mn_pc = "deleting" \/ (mn_choice = "d" /\ mn_pc = "back")) =>
        (mn_tokens = 0 \/ mn_message_count <= EmptyUpTo)

\* a session of two messages and a large estimate was deleted
C29_Witness ==
    /\ mn_pc = "back"
    /\ mn_choice = "d"
    /\ mn_tokens > ResumeBelow
    /\ mn_message_count = EmptyUpTo

\* C30: for an empty session (token estimate 0 or at most 2 messages) the
\* menu accepts only D, B and Q: R and C are invalid, the menu asks again,
\* and neither a resume nor a compression is launched.
C30_EmptyMenuRejectsRC ==
    (mn_tokens = 0 \/ mn_message_count <= EmptyUpTo) =>
        /\ mn_choice \in {"r", "c"} => mn_pc = "menu"
        /\ mn_pc \notin {"resumed"} \cup CompressionPath

-----------------------------------------------------------------------------
(* Specification SpecCount: count_tokens called several times on one       *)
(* extractor whose encoder, when one is installed, is any function from a  *)
(* text to a token count or to an error of class Exception.                *)

MaxExact == 2       \* largest token count an encoder gives a text
MaxCalls == 2       \* calls of count_tokens on one extractor

CountTexts == {<<>>, Rep("a", 4), Rep("a", 35), Rep(Zh, 2)}

Encoded(n) == [kind |-> "ok", n |-> n]
EncodeError == [kind |-> "Exception", n |-> 0]

\* self.encoder = None
NoEncoder == [installed |-> FALSE, encode |-> <<>>]

Encoders ==
    {[installed |-> TRUE, encode |-> e] :
        e \in [CountTexts -> {EncodeError} \cup {Encoded(n) : n \in 0..MaxExact}]}

InitCount ==
    /\ ct_encoder \in Encoders \cup {NoEncoder}
    /\ ct_encoder0 = ct_encoder
    /\ ct_calls = <<>>
    /\ CtRestIdle

UninstallEncoder(encoder) == NoEncoder

\* except Exception: pass -- the handler assigns nothing, self.encoder stays
AfterEncodeError(encoder) == encoder

\* the value count_tokens returns and the encoder it leaves
CountWith(encoder, text) ==
    IF encoder.installed /\ encoder.encode[text].kind = "ok"
    THEN [result |-> encoder.encode[text].n, encoder |-> encoder]
    ELSE IF encoder.installed
    THEN [result |-> count_tokens(text), encoder |-> AfterEncodeError(encoder)]
    ELSE [result |-> count_tokens(text), encoder |-> encoder]

CountCall(text) ==
    /\ Len(ct_calls) < MaxCalls
    /\ ct_calls' = Append(ct_calls, [text |-> text,
                                     result |-> CountWith(ct_encoder, text).result])
    /\ ct_encoder' = CountWith(ct_encoder, text).encoder
    /\ UNCHANGED <<ct_encoder0, ctRest>>

NextCount == \E text \in CountTexts : CountCall(text)

SpecCount == InitCount /\ [][NextCount]_vars

\* C25: when the encoder raises on a text, count_tokens returns the heuristic
\* estimate of that text; the encoder stays installed, so every call on a
\* text the encoder accepts, later ones included, returns the exact count.
C25_FallbackPerText ==
    /\ ct_encoder = ct_encoder0
    /\ \A k \in 1..Len(ct_calls) :
          LET text == ct_calls[k].text
          IN  ct_encoder0.installed =>
                IF ct_encoder0.encode[text].kind = "ok"
                THEN ct_calls[k].result = ct_encoder0.encode[text].n
                ELSE ct_calls[k].result = count_tokens(text)

\* the encoder raised on one text, and a later call on a text it accepts
\* returned an exact count that is not the estimate
C25_Witness ==
    \E j, k \in 1..Len(ct_calls) :
        /\ j < k
        /\ ct_encoder0.installed
        /\ ct_encoder0.encode[ct_calls[j].text].kind = "Exception"
        /\ ct_calls[j].result > 0
        /\ ct_encoder0.encode[ct_calls[k].text].kind = "ok"
        /\ ct_calls[k].result # count_tokens(ct_calls[k].text)

====
